---------------------------- MODULE Spec2Model ----------------------------
(***************************************************************************)
(* Model of the GTFS-RT feed poller, src/src/raw/gtfs_rt_raw_ingest.py,    *)
(* and of the Silver tables of the pipeline, src/src/pipeline/gtfs.py.     *)
(*                                                                         *)
(* One behaviour is one poller process: main() calls                       *)
(* run_continuous_ingestion(), whose `while True` loop fetches the feed,   *)
(* compares the bytes with the last stored bytes, decodes, writes one file *)
(* dt=<date>/<message_name>_<epoch>.json and sleeps.  One action is one    *)
(* whole loop iteration, up to and including its sleep (or the raise that  *)
(* ends the loop).                                                         *)
(*                                                                         *)
(* Time is counted in ticks of half a second, the argument of the loop's   *)
(* time.sleep(0.5): the wall clock `now` is the instant at which the       *)
(* iteration reads datetime.now(), and between two iterations it advances  *)
(* by the sleep plus an arbitrary latency (fetch, decode, write).          *)
(***************************************************************************)
EXTENDS Integers, Sequences, FiniteSets, TLC

VARIABLES
    poll_interval,       \* parameter of run_continuous_ingestion, in ticks
    message_name,        \* parameter of run_continuous_ingestion
    current_data,        \* local: the bytes of the most recent successful fetch
    last_data,           \* local: the last stored bytes, or None
    consecutive_errors,  \* local: the error counter
    files,               \* the Bronze Log: file path -> file content
    now,                 \* the wall clock (UTC), in ticks
    slept,               \* the argument of the most recent time.sleep, in ticks
    step,                \* what the most recent iteration did (its log line)
    exc,                 \* the exception that left run_continuous_ingestion
    exit,                \* the outcome of main()
    run,                 \* history: the current run of equal accepted fetches
    streak,              \* history: failed iterations since the last clean one
    bronze,              \* pipeline: the Bronze record of the current micro-batch
    silver,              \* pipeline: Silver table name -> the rows of the update
    refreshed,           \* pipeline: the Silver tables the update has computed
    argv,                \* main(): sys.argv
    url,                 \* parameter of run_continuous_ingestion
    pollers,             \* several jobs: message name -> the locals of its poller
    source,              \* streaming: the Bronze records that have arrived
    consumed             \* streaming: Silver table -> the records it has read

\* The state of the pipeline update (src/src/pipeline/gtfs.py).
pipeline_vars == <<bronze, silver, refreshed>>

\* The command line and the feed URL main() derives from it.
entry_vars == <<argv, url>>

\* The pollers of several jobs that run side by side.
fleet_vars == <<pollers>>

\* The streams the Silver tables read.
stream_vars == <<source, consumed>>

vars == <<poll_interval, message_name, current_data, last_data, consecutive_errors, files,
          now, slept, step, exc, exit, run, streak, bronze, silver, refreshed,
          argv, url, pollers, source, consumed>>

-----------------------------------------------------------------------------
(* Bounds of the model *)

\* The clock value after which no further iteration is started.
MaxTick == 11

\* The largest latency of one iteration (fetch + decode + write), in ticks.
MaxLatency == 0

\* The length of a UTC day in epoch seconds, scaled down.
SecondsPerDay == 3

\* The number of files the volume holds; a write that would create one more
\* is not attempted.
MaxFiles == 2

-----------------------------------------------------------------------------
(* Program constants *)

TicksPerSecond == 2

\* DEFAULT_POLL_INTERVAL_SECONDS = 5
DEFAULT_POLL_INTERVAL_SECONDS == 5

\* max_consecutive_errors = 10
max_consecutive_errors == 10

\* time.sleep(0.5): half a second is one tick
SLEEP_TICKS == 1

\* An optional value is a set of at most one element; None is the empty one.
None == {}

Some(v) == {v}

\* DEFAULT_GTFS_RT_URL
DEFAULT_GTFS_RT_URL == "https://realtime.hsl.fi/realtime/vehicle-positions/v2/hsl"

\* sys.argv[0]
Script == "gtfs_rt_raw_ingest.py"

-----------------------------------------------------------------------------
(* The feed: payloads and the decoder *)

\* A payload is a byte string, here a sequence of entity codes.  Code 0 is a
\* byte sequence that gtfs_realtime_pb2 cannot parse; the other codes are
\* well-formed FeedEntity messages: 1 has the vehicle sub-field only, 2 has
\* none of the three variant sub-fields (all are optional in the schema, as
\* for an entity with is_deleted), 3 has both vehicle and alert.
Payloads == {<<1>>, <<2, 3>>, <<0>>}

\* The exception protobuf_to_json raises, as its result.
DecodeError == [error |-> "DecodeError"]

\* MessageToDict(entity, preserving_proto_field_name=True): the id and a key
\* for each populated sub-field (here: whether the key is there).
EntityOf(code) ==
    [id |-> code,
     vehicle |-> code \in {1, 3},
     trip_update |-> FALSE,
     alert |-> code = 3]

\* protobuf_to_json: ParseFromString raises on malformed bytes (and the
\* function re-raises); otherwise MessageToDict gives the document.
Malformed(protobuf_data) ==
    \E i \in 1..Len(protobuf_data) : protobuf_data[i] = 0

\* Mutant: a decoder that never raises.
protobuf_to_json_Lenient(protobuf_data) ==
    [entity |-> [i \in 1..Len(protobuf_data) |-> EntityOf(protobuf_data[i])]]

protobuf_to_json(protobuf_data) ==
    IF Malformed(protobuf_data)
    THEN DecodeError
    ELSE [entity |-> [i \in 1..Len(protobuf_data) |-> EntityOf(protobuf_data[i])]]

\* json.dump(json_data, f, indent=2, ensure_ascii=False): the text of a file,
\* complete, or cut short when json.dump did not finish.
FileText(json_data) == [json |-> json_data, complete |-> TRUE]

\* Some proper prefix of a text.
PartialText == [json |-> << >>, complete |-> FALSE]

-----------------------------------------------------------------------------
(* The Bronze file layout *)

\* int(now.timestamp())
EpochOf(t) == t \div TicksPerSecond

\* Mutant: `%` for `//`, the second of the day instead of the day.
DateOf_Mod(t) == EpochOf(t) % SecondsPerDay

\* now.strftime("%Y-%m-%d"): the UTC day of the instant
DateOf(t) == EpochOf(t) \div SecondsPerDay

\* Mutant: the date comes from a second datetime.now(), read a tick later.
FilePath_TwoReads(name, t) ==
    [dt |-> DateOf(t + 1), name |-> name, epoch |-> EpochOf(t)]

\* os.path.join(volume_path, f"dt={current_date}", f"{message_name}_{epoch_time}.json")
FilePath(name, t) == [dt |-> DateOf(t), name |-> name, epoch |-> EpochOf(t)]

\* open(file_path, "w") followed by json.dump: creates or truncates the file
WriteFile(fs, path, content) ==
    [p \in (DOMAIN fs) \cup {path} |-> IF p = path THEN content ELSE fs[p]]

-----------------------------------------------------------------------------
(* The decisions of the loop, one operator per line of code *)

\* Mutant: the comparison with the last stored bytes is dropped.
ShouldSave_Always(fetched, stored) == TRUE

\* `if current_data != last_data:`
ShouldSave(fetched, stored) == Some(fetched) # stored

\* Mutant: `last_data = current_data` moved up, before the decode.
StoredAfter_Early(stored, fetched, saved) == Some(fetched)

\* Mutant: the assignment `last_data = current_data` is dropped.
StoredAfter_Never(stored, fetched, saved) == stored

\* `last_data = current_data` is the statement after the write: the stored
\* bytes change only in an iteration that saved.
StoredAfter(stored, fetched, saved) == IF saved THEN Some(fetched) ELSE stored

\* `consecutive_errors += 1`
ErrorsAfterFailure(n) == n + 1

\* `consecutive_errors = 0  # Reset error counter on success`, which is inside
\* the `if current_data != last_data:` branch: only a saved snapshot resets.
ErrorsAfterIteration(n, saved) == IF saved THEN 0 ELSE n

\* Mutant: `>` for `>=`.
IsFatal_OffByOne(n) == n > max_consecutive_errors

\* `if consecutive_errors >= max_consecutive_errors:` ... `raise`
IsFatal(n) == n >= max_consecutive_errors

\* Mutant: a bare `except:`.
LoopCatches_BareExcept(e) == TRUE

\* `except Exception as e:` catches every Exception; KeyboardInterrupt is a
\* BaseException and passes through.
LoopCatches(e) == e # "KeyboardInterrupt"

\* Mutant: a pause that grows with the number of failures.
SleepDuration_Backoff(interval, errors) == SLEEP_TICKS * (errors + 1)

\* `time.sleep(0.5)`: the pause reads neither poll_interval nor the counter.
SleepDuration(interval, errors) == SLEEP_TICKS

\* main(): `except KeyboardInterrupt:` logs and returns; `except Exception:`
\* logs and re-raises.
MainOutcome(e) == IF e = "KeyboardInterrupt" THEN "graceful" ELSE "fatal"

-----------------------------------------------------------------------------
(* main(): the command line *)

\* The exception float() raises, as its result.
ValueError == [error |-> "ValueError"]

\* The strings float() accepts.
Numerals == {"1", "30"}

\* float(text): the number a decimal string denotes, or ValueError.
float(text) ==
    CASE text = "1" -> 1
      [] text = "30" -> 30
      [] OTHER -> ValueError

\* args[key] = value
Put(args, key, value) ==
    [k \in (DOMAIN args) \cup {key} |-> IF k = key THEN value ELSE args[k]]

RECURSIVE ParseArgs(_, _, _)
\* `for i in range(1, len(sys.argv), 2): if i + 1 < len(sys.argv): ...`, with
\* the indices counted from 1: i is the position of a key.
ParseArgs(a, i, args) ==
    IF i > Len(a)
    THEN args
    ELSE ParseArgs(a, i + 2,
                   IF i + 1 <= Len(a) THEN Put(args, a[i], a[i + 1]) ELSE args)

\* args.get(key, default)
get(args, key, default) == IF key \in DOMAIN args THEN args[key] ELSE default

\* The fallback branch of main(): every parameter is the built-in default.
Defaults ==
    [url |-> DEFAULT_GTFS_RT_URL, message_name |-> "vehicle_positions",
     poll_interval |-> DEFAULT_POLL_INTERVAL_SECONDS]

\* Mutant: `>= 6` for `>= 7`.
EnoughArgs_Six(a) == Len(a) >= 6

\* `if len(sys.argv) >= 7:`
EnoughArgs(a) == Len(a) >= 7

\* main() up to the call of run_continuous_ingestion: the parameters it
\* passes, or ValueError when float() raises.
main(a) ==
    IF EnoughArgs(a)
    THEN LET args == ParseArgs(a, 2, << >>)
             given == "poll_interval_seconds" \in DOMAIN args
         IN  IF given /\ args["poll_interval_seconds"] \notin Numerals
             THEN ValueError
             ELSE [url |-> get(args, "gtfs_rt_url", DEFAULT_GTFS_RT_URL),
                   message_name |-> get(args, "message_name", "vehicle_positions"),
                   poll_interval |->
                       IF given
                       THEN float(args["poll_interval_seconds"])
                       ELSE DEFAULT_POLL_INTERVAL_SECONDS]
    ELSE Defaults

\* The command lines of the pollers: none (the fallback defaults), and two
\* jobs configured on the command line, one polling every second.
JobArgvs ==
    {<<Script>>,
     <<Script, "gtfs_rt_url", "https://feed/trip-updates",
       "message_name", "trip_updates", "poll_interval_seconds", "1">>,
     <<Script, "message_name", "service_alerts", "volume_path", "/tmp",
       "log_level", "debug">>}

\* The arguments main() passes to run_continuous_ingestion for them, as
\* <<message_name, poll_interval>>.
Jobs ==
    {<<main(a).message_name, main(a).poll_interval * TicksPerSecond>> :
        a \in JobArgvs}

-----------------------------------------------------------------------------
(* History variables (not program state) *)

\* An iteration without failure that fetched d: it continues the current run
\* of equal payloads or starts a new one.
RunAfterClean(d, saved) ==
    LET w == IF saved THEN 1 ELSE 0
    IN  IF run.payload = Some(d)
        THEN [payload |-> Some(d), writes |-> run.writes + w]
        ELSE [payload |-> Some(d), writes |-> w]

-----------------------------------------------------------------------------
(* The state after construction: main() has called run_continuous_ingestion *)

Init ==
    /\ \E a \in JobArgvs :
          /\ argv = a
          /\ url = main(a).url
          /\ message_name = main(a).message_name
          /\ poll_interval = main(a).poll_interval * TicksPerSecond
    /\ current_data = None
    /\ last_data = None
    /\ consecutive_errors = 0
    /\ files = << >>
    /\ now = 0
    /\ slept = 0
    /\ step = "start"
    /\ exc = "none"
    /\ exit = "running"
    /\ run = [payload |-> None, writes |-> 0]
    /\ streak = 0
    /\ bronze = None
    /\ silver = << >>
    /\ refreshed = {}
    /\ pollers = << >>
    /\ source = << >>
    /\ consumed = << >>

\* Mutant: `if True:` for `while True:`, one pass through the loop body.
Running_Once == exit = "running" /\ now = 0

\* `while True:`, up to the horizon of the model.
Running == exit = "running" /\ now <= MaxTick

\* The volume has room for the file this iteration would write.
HasRoom ==
    \/ FilePath(message_name, now) \in DOMAIN files
    \/ Cardinality(DOMAIN files) < MaxFiles

\* `time.sleep(0.5)`, then the next iteration's fetch and decode take `lat`.
Sleep(lat) ==
    /\ slept' = SleepDuration(poll_interval, consecutive_errors')
    /\ now' = now + SleepDuration(poll_interval, consecutive_errors') + lat
    /\ UNCHANGED <<exc, exit>>

\* The `except Exception` block for an exception e raised in the try body.
OnException(e, lat) ==
    IF LoopCatches(e)
    THEN /\ consecutive_errors' = ErrorsAfterFailure(consecutive_errors)
         /\ IF IsFatal(ErrorsAfterFailure(consecutive_errors))
            THEN /\ exc' = e
                 /\ exit' = MainOutcome(e)
                 /\ UNCHANGED <<now, slept>>
            ELSE Sleep(lat)
    ELSE /\ exc' = e
         /\ exit' = MainOutcome(e)
         /\ UNCHANGED <<consecutive_errors, now, slept>>

\* fetch_gtfs_rt_data raises (timeout, connection error, HTTP status).
IterFetchError(lat) ==
    /\ Running
    /\ UNCHANGED <<pipeline_vars, entry_vars, fleet_vars, stream_vars>>
    /\ OnException("RequestException", lat)
    /\ step' = "fetch_error"
    /\ streak' = streak + 1
    /\ UNCHANGED <<poll_interval, message_name, current_data, last_data, files, run>>

\* The fetched bytes equal the last stored bytes: "No new data; skipping write".
IterSkip(d, lat) ==
    /\ Running
    /\ UNCHANGED <<pipeline_vars, entry_vars, fleet_vars, stream_vars>>
    /\ current_data' = Some(d)
    /\ ~ShouldSave(d, last_data)
    /\ consecutive_errors' = ErrorsAfterIteration(consecutive_errors, FALSE)
    /\ Sleep(lat)
    /\ step' = "skipped"
    /\ run' = RunAfterClean(d, FALSE)
    /\ streak' = 0
    /\ UNCHANGED <<poll_interval, message_name, last_data, files>>

\* The bytes changed and protobuf_to_json raises.
IterDecodeError(d, lat) ==
    /\ Running
    /\ UNCHANGED <<pipeline_vars, entry_vars, fleet_vars, stream_vars>>
    /\ current_data' = Some(d)
    /\ ShouldSave(d, last_data)
    /\ protobuf_to_json(d) = DecodeError
    /\ OnException("DecodeError", lat)
    /\ last_data' = StoredAfter(last_data, d, FALSE)
    /\ step' = "decode_error"
    /\ streak' = streak + 1
    /\ UNCHANGED <<poll_interval, message_name, files, run>>

\* The bytes changed and decoded, and os.makedirs or open raises (the file
\* is untouched) or json.dump raises (the file is left partly written).
IterWriteError(d, dumping, lat) ==
    /\ Running
    /\ UNCHANGED <<pipeline_vars, entry_vars, fleet_vars, stream_vars>>
    /\ current_data' = Some(d)
    /\ ShouldSave(d, last_data)
    /\ protobuf_to_json(d) # DecodeError
    /\ dumping => HasRoom
    /\ files' = IF dumping
                THEN WriteFile(files, FilePath(message_name, now), PartialText)
                ELSE files
    /\ OnException("OSError", lat)
    /\ last_data' = StoredAfter(last_data, d, FALSE)
    /\ step' = "write_error"
    /\ streak' = streak + 1
    /\ UNCHANGED <<poll_interval, message_name, run>>

\* The bytes changed, decoded and were written: "New GTFS-RT data saved".
IterSave(d, lat) ==
    /\ Running
    /\ UNCHANGED <<pipeline_vars, entry_vars, fleet_vars, stream_vars>>
    /\ current_data' = Some(d)
    /\ ShouldSave(d, last_data)
    /\ protobuf_to_json(d) # DecodeError
    /\ HasRoom
    /\ files' = WriteFile(files, FilePath(message_name, now),
                        FileText(protobuf_to_json(d)))
    /\ last_data' = StoredAfter(last_data, d, TRUE)
    /\ consecutive_errors' = ErrorsAfterIteration(consecutive_errors, TRUE)
    /\ Sleep(lat)
    /\ step' = "saved"
    /\ run' = RunAfterClean(d, TRUE)
    /\ streak' = 0
    /\ UNCHANGED <<poll_interval, message_name>>

\* KeyboardInterrupt delivered while the loop sleeps, fetches or decodes.
Interrupt ==
    /\ Running
    /\ UNCHANGED <<pipeline_vars, entry_vars, fleet_vars, stream_vars>>
    /\ OnException("KeyboardInterrupt", 0)
    /\ step' = "interrupted"
    /\ UNCHANGED <<poll_interval, message_name, current_data, last_data, files,
                   run, streak>>

\* KeyboardInterrupt delivered inside json.dump: the file stays partly written.
InterruptInWrite(d) ==
    /\ Running
    /\ UNCHANGED <<pipeline_vars, entry_vars, fleet_vars, stream_vars>>
    /\ current_data' = Some(d)
    /\ ShouldSave(d, last_data)
    /\ protobuf_to_json(d) # DecodeError
    /\ HasRoom
    /\ files' = WriteFile(files, FilePath(message_name, now), PartialText)
    /\ OnException("KeyboardInterrupt", 0)
    /\ step' = "interrupted"
    /\ UNCHANGED <<poll_interval, message_name, last_data, run, streak>>

Next ==
    \/ \E lat \in 0..MaxLatency : IterFetchError(lat)
    \/ \E d \in Payloads, lat \in 0..MaxLatency : IterSkip(d, lat)
    \/ \E d \in Payloads, lat \in 0..MaxLatency : IterDecodeError(d, lat)
    \/ \E d \in Payloads, dumping \in BOOLEAN, lat \in 0..MaxLatency :
           IterWriteError(d, dumping, lat)
    \/ \E d \in Payloads, lat \in 0..MaxLatency : IterSave(d, lat)
    \/ Interrupt
    \/ \E d \in Payloads : InterruptInWrite(d)

Spec == Init /\ [][Next]_vars

-----------------------------------------------------------------------------
(* Properties of the Feed Poller *)

FailureSteps == {"fetch_error", "decode_error", "write_error"}

CleanSteps == {"skipped", "saved"}

SavedAgain == step = "saved" /\ step' = "saved" /\ now' # now

\* C2: completeness.  Consecutive accepted fetches each add one record to
\* the Bronze Log, whatever the instants of the writes.
C2_Completeness ==
    [][SavedAgain
         => Cardinality(DOMAIN files') = Cardinality(DOMAIN files) + 1]_vars

\* C3: the poller ends with the fatal outcome exactly when the error counter
\* is at the maximum, never below it, whatever failures were counted; after
\* the fatal outcome the Bronze Log does not change.
C3_FatalThreshold ==
    /\ [](exit = "fatal" <=> consecutive_errors = max_consecutive_errors)
    /\ [](exit = "fatal" => exc \in {"RequestException", "DecodeError", "OSError"})
    /\ [][exit = "fatal" => files' = files]_vars

C3_Witness ==
    /\ exit = "fatal"
    /\ consecutive_errors = max_consecutive_errors
    /\ step = "decode_error"
    /\ files # << >>

\* C4: after every iteration without failure, saved or skipped, the error
\* counter is zero, so the fatal outcome comes only after
\* max_consecutive_errors failed iterations in a row.
C4_SuccessResets ==
    /\ step \in CleanSteps => consecutive_errors = 0
    /\ exit = "fatal" => streak >= max_consecutive_errors

\* C5: an iteration whose fetch fails, whose bytes do not decode or whose
\* bytes equal the last stored bytes leaves the Bronze Log as it was, and
\* equal bytes are not counted as an error.
C5_WritesOnlyOnChange ==
    [][/\ step' = "fetch_error" => files' = files
       /\ step' \in FailureSteps \cup CleanSteps /\ step' # "fetch_error"
            => /\ Malformed(CHOOSE d \in current_data' : TRUE) => files' = files
               /\ current_data' = last_data
                    => files' = files /\ consecutive_errors' = consecutive_errors
      ]_vars

C5_Witness ==
    /\ step = "skipped"
    /\ current_data = last_data
    /\ files # << >>
    /\ consecutive_errors > 0

\* C6: a record of the Bronze Log is never changed or removed by a later
\* step, and every accepted snapshot is written to a new file.
C6_AppendOnly ==
    [][/\ \A p \in DOMAIN files :
            files[p].complete => p \in DOMAIN files' /\ files'[p] = files[p]
       /\ SavedAgain => FilePath(message_name, now) \notin DOMAIN files]_vars

\* C7: a KeyboardInterrupt, at any value of the error counter, ends main()
\* through the graceful path: the counter is not incremented and the outcome
\* is not the fatal one.
C7_CleanCancellation ==
    [][step' = "interrupted" /\ step # "interrupted"
         => /\ exit' = "graceful"
            /\ exc' = "KeyboardInterrupt"
            /\ consecutive_errors' = consecutive_errors]_vars

C7_Witness ==
    /\ step = "interrupted"
    /\ exit = "graceful"
    /\ consecutive_errors = max_consecutive_errors - 1

\* C8: every failed iteration adds exactly one to the error counter; below
\* the maximum the loop goes on after the fixed pause, the same pause that
\* follows an iteration without failure.
C8_FixedIntervalRetry ==
    [][/\ step' \in FailureSteps /\ vars' # vars
            => /\ consecutive_errors' = consecutive_errors + 1
               /\ consecutive_errors' < max_consecutive_errors
                    => exit' = "running" /\ slept' = SLEEP_TICKS
       /\ step' \in CleanSteps /\ vars' # vars => slept' = SLEEP_TICKS
      ]_vars

C8_Witness ==
    /\ step \in FailureSteps
    /\ consecutive_errors = 3
    /\ exit = "running"
    /\ slept = SLEEP_TICKS

\* C9: the pause between two iterations is the caller's poll_interval.
C9_SleepsPollInterval == slept # 0 => slept = poll_interval

\* C10: the poller ends with the fatal outcome when, and only when, as many
\* iterations in a row have failed as the configured maximum.
C10_CallerThreshold == exit = "fatal" <=> streak >= max_consecutive_errors

\* C11: every file of the Bronze Log is at dt=<date>/<message_name>_<epoch>,
\* the date being the UTC day of the epoch second in the name.
C11_Layout ==
    \A p \in DOMAIN files :
        /\ p.name = message_name
        /\ p.dt = p.epoch \div SecondsPerDay
        /\ p.epoch * TicksPerSecond <= now

\* Records on both sides of midnight, one in the first second of its day.
C11_Witness ==
    \E p, q \in DOMAIN files :
        /\ p.dt = 0 /\ q.dt = 1
        /\ q.epoch = SecondsPerDay
        /\ files[p].complete /\ files[q].complete

\* The files a step wrote: created, or changed in content.
Written(p) == p \notin DOMAIN files \/ files'[p] # files[p]

C13_DecodeFailureRetried ==
    [][step' \in {"decode_error", "write_error", "skipped", "saved"} /\ vars' # vars
         => /\ Malformed(CHOOSE d \in current_data' : TRUE)
                 => /\ files' = files
                    /\ last_data' = last_data
                    /\ consecutive_errors' = consecutive_errors + 1
                    /\ current_data' # last_data'
            /\ step = "decode_error" /\ current_data' = current_data
                 => step' = "decode_error"
      ]_vars

\* The undecodable payload fetched twice in a row, after a saved one.
C13_Witness ==
    /\ step = "decode_error"
    /\ streak >= 2
    /\ consecutive_errors = streak
    /\ last_data # None
    /\ current_data # last_data

-----------------------------------------------------------------------------
(* The pipeline: Spark column expressions.  A column value is an optional  *)
(* value, None being SQL NULL; a struct is a record of column values and an *)
(* array a sequence of structs.                                             *)

\* Bounds of the pipeline model: the entities of a Bronze record, the
\* stop-time updates of a trip update, the informed entities of an alert.
MaxEntities == 2

MaxStops == 3

MaxInformed == 2

\* The value of a column that is not null.
Get(v) == CHOOSE x \in v : TRUE

\* col("s.f"): the field f of the struct s; null when s is null.
col(s, f) == IF s = None THEN None ELSE Get(s)[f]

\* explode_outer(arr): as explode, but one null element for a null or empty
\* array.
explode_outer(arr) ==
    IF arr = None \/ Len(Get(arr)) = 0
    THEN <<None>>
    ELSE [i \in 1..Len(Get(arr)) |-> Some(Get(arr)[i])]

\* explode(arr): one output element per array element, in order; none for a
\* null or empty array.
explode(arr) ==
    IF arr = None
    THEN << >>
    ELSE [i \in 1..Len(Get(arr)) |-> Some(Get(arr)[i])]

\* from_unixtime(seconds): the timestamp, as day and second of the day.
from_unixtime(seconds) ==
    IF seconds = None
    THEN None
    ELSE Some([day |-> Get(seconds) \div SecondsPerDay,
               second |-> Get(seconds) % SecondsPerDay])

\* The factor 3.6, in tenths: speeds are counted in tenths of a metre per
\* second and in hundredths of a kilometre per hour.
KMH_PER_MPS_TENTHS == 36

\* coalesce(speed, 0) * 3.6
speed_kmh_Coalesce(speed) ==
    IF speed = None THEN Some(0) ELSE Some(Get(speed) * KMH_PER_MPS_TENTHS)

\* (col("...position.speed") * 3.6): null for a null speed.
speed_kmh(speed) ==
    IF speed = None THEN None ELSE Some(Get(speed) * KMH_PER_MPS_TENTHS)

\* when(bearing.isNotNull(), bearing).otherwise(lit(None))
bearing_degrees(bearing) == IF bearing # None THEN bearing ELSE None

\* struct(longitude.alias("x"), latitude.alias("y")): a struct, never null.
geometry_point(longitude, latitude) == Some([x |-> longitude, y |-> latitude])

RECURSIVE Flatten(_)
\* The rows of all the inner explodes, in order.
Flatten(ss) == IF ss = << >> THEN << >> ELSE Head(ss) \o Flatten(Tail(ss))

-----------------------------------------------------------------------------
(* The pipeline: the Silver tables.  Each is a function of one Bronze       *)
(* record [header, dt, entity]; file_metadata and ingestion_timestamp are   *)
(* copied through unread and are left out.                                  *)

\* The row of one exploded entity in silver_vehicle_positions.
VehiclePositionRow(rec, entity_exploded) ==
    LET vehicle == col(entity_exploded, "vehicle")
        descriptor == col(vehicle, "vehicle")
        trip == col(vehicle, "trip")
        position == col(vehicle, "position")
    IN  [entity_id |-> col(entity_exploded, "id"),
         vehicle_id |-> col(descriptor, "id"),
         vehicle_label |-> col(descriptor, "label"),
         route_id |-> col(trip, "route_id"),
         direction_id |-> col(trip, "direction_id"),
         trip_start_date |-> col(trip, "start_date"),
         trip_start_time |-> col(trip, "start_time"),
         schedule_relationship |-> col(trip, "schedule_relationship"),
         latitude |-> col(position, "latitude"),
         longitude |-> col(position, "longitude"),
         bearing |-> col(position, "bearing"),
         speed_mps |-> col(position, "speed"),
         odometer |-> col(position, "odometer"),
         current_status |-> col(vehicle, "current_status"),
         occupancy_status |-> col(vehicle, "occupancy_status"),
         current_stop_id |-> col(vehicle, "stop_id"),
         vehicle_timestamp |-> from_unixtime(col(vehicle, "timestamp")),
         feed_timestamp |-> from_unixtime(col(Some(rec.header), "timestamp")),
         dt |-> rec.dt,
         speed_kmh |-> speed_kmh(col(position, "speed")),
         bearing_degrees |-> bearing_degrees(col(position, "bearing")),
         geometry_point |-> geometry_point(col(position, "longitude"),
                                           col(position, "latitude"))]

\* silver_vehicle_positions(): explode("entity"), then one select.
silver_vehicle_positions(rec) ==
    LET entities == explode(rec.entity)
    IN  [i \in 1..Len(entities) |-> VehiclePositionRow(rec, entities[i])]

RECURSIVE Join(_)
\* The strings of a sequence of non-null columns, joined.
Join(cols) == IF cols = << >> THEN "" ELSE Get(Head(cols)) \o Join(Tail(cols))

RECURSIVE JoinPresent(_)
\* Mutant: concat_ws-like joining, a null column counting as the empty string.
JoinPresent(cols) ==
    IF cols = << >> THEN ""
    ELSE (IF Head(cols) = None THEN "" ELSE Get(Head(cols)))
             \o JoinPresent(Tail(cols))

concat_Coalesce(cols) == Some(JoinPresent(cols))

\* concat(cols...): null when any of the columns is null.
concat(cols) ==
    IF \E i \in 1..Len(cols) : cols[i] = None THEN None ELSE Some(Join(cols))

\* concat(route_id, trip_start_date, trip_start_time)
trip_id_NoSeparator(route_id, trip_start_date, trip_start_time) ==
    concat(<<route_id, trip_start_date, trip_start_time>>)

\* concat(route_id, lit("_"), trip_start_date, lit("_"), trip_start_time)
trip_id(route_id, trip_start_date, trip_start_time) ==
    concat(<<route_id, Some("_"), trip_start_date, Some("_"), trip_start_time>>)

\* The row of one exploded stop-time update of one exploded entity in
\* silver_trip_updates.
TripStopUpdateRow(rec, entity_exploded, stop_update) ==
    LET trip_update == col(entity_exploded, "trip_update")
        trip == col(trip_update, "trip")
        arrival == col(stop_update, "arrival")
        departure == col(stop_update, "departure")
    IN  [entity_id |-> col(entity_exploded, "id"),
         route_id |-> col(trip, "route_id"),
         direction_id |-> col(trip, "direction_id"),
         trip_start_date |-> col(trip, "start_date"),
         trip_start_time |-> col(trip, "start_time"),
         trip_schedule_relationship |-> col(trip, "schedule_relationship"),
         trip_update_timestamp |-> from_unixtime(col(trip_update, "timestamp")),
         feed_timestamp |-> from_unixtime(col(Some(rec.header), "timestamp")),
         stop_id |-> col(stop_update, "stop_id"),
         stop_sequence |-> col(stop_update, "stop_sequence"),
         stop_schedule_relationship |-> col(stop_update, "schedule_relationship"),
         predicted_arrival_time |-> from_unixtime(col(arrival, "time")),
         arrival_uncertainty_seconds |-> col(arrival, "uncertainty"),
         predicted_departure_time |-> from_unixtime(col(departure, "time")),
         departure_uncertainty_seconds |-> col(departure, "uncertainty"),
         assigned_stop_id |->
             col(col(stop_update, "stop_time_properties"), "assigned_stop_id"),
         dt |-> rec.dt,
         trip_id |-> trip_id(col(trip, "route_id"), col(trip, "start_date"),
                             col(trip, "start_time"))]

\* silver_trip_updates(): explode("entity"), then
\* explode("entity_exploded.trip_update.stop_time_update"), then one select.
silver_trip_updates(rec) ==
    LET entities == explode(rec.entity)
        StopUpdates(e) == explode(col(col(e, "trip_update"), "stop_time_update"))
    IN  Flatten([i \in 1..Len(entities) |->
                    [j \in 1..Len(StopUpdates(entities[i])) |->
                        TripStopUpdateRow(rec, entities[i],
                                          StopUpdates(entities[i])[j])]])

\* arr[size - 1]: the last element.
item_0_Last(arr) ==
    IF arr = None \/ Len(Get(arr)) = 0
    THEN None
    ELSE Some(Get(arr)[Len(Get(arr))])

\* arr[0]: the first element; null for a null or empty array.
item_0(arr) ==
    IF arr = None \/ Len(Get(arr)) = 0 THEN None ELSE Some(Get(arr)[1])

\* The row of one exploded entity in silver_service_alerts.
ServiceAlertRow(rec, entity_exploded) ==
    LET alert == col(entity_exploded, "alert")
        Translation0(f) == item_0(col(col(alert, f), "translation"))
    IN  [alert_id |-> col(entity_exploded, "id"),
         cause |-> col(alert, "cause"),
         effect |-> col(alert, "effect"),
         severity_level |-> col(alert, "severity_level"),
         header_text |-> col(Translation0("header_text"), "text"),
         header_language |-> col(Translation0("header_text"), "language"),
         description_text |-> col(Translation0("description_text"), "text"),
         description_language |-> col(Translation0("description_text"), "language"),
         url |-> col(Translation0("url"), "text"),
         active_periods |-> col(alert, "active_period"),
         informed_entities |-> col(alert, "informed_entity"),
         feed_timestamp |-> from_unixtime(col(Some(rec.header), "timestamp")),
         dt |-> rec.dt]

\* silver_service_alerts(): explode("entity"), then one select.
silver_service_alerts(rec) ==
    LET entities == explode(rec.entity)
    IN  [i \in 1..Len(entities) |-> ServiceAlertRow(rec, entities[i])]

\* The row of one exploded informed entity of one row of
\* silver_service_alerts, in silver_service_alerts_entities.
AlertEntityRow(alert_row, entity) ==
    [alert_id |-> alert_row.alert_id,
     cause |-> alert_row.cause,
     effect |-> alert_row.effect,
     severity_level |-> alert_row.severity_level,
     header_text |-> alert_row.header_text,
     description_text |-> alert_row.description_text,
     url |-> alert_row.url,
     feed_timestamp |-> alert_row.feed_timestamp,
     affected_agency_id |-> col(entity, "agency_id"),
     affected_route_id |-> col(entity, "route_id"),
     affected_stop_id |-> col(entity, "stop_id"),
     dt |-> alert_row.dt]

\* As silver_service_alerts_entities, with informed_entities[0] for the
\* explode: at most one row per alert.
silver_service_alerts_entities_FirstOnly(alert_rows) ==
    Flatten([i \in 1..Len(alert_rows) |->
                IF item_0(alert_rows[i].informed_entities) = None
                THEN << >>
                ELSE <<AlertEntityRow(alert_rows[i],
                                      item_0(alert_rows[i].informed_entities))>>])

\* silver_service_alerts_entities(): reads the rows of silver_service_alerts,
\* explode("informed_entities"), then one select.
silver_service_alerts_entities(alert_rows) ==
    Flatten([i \in 1..Len(alert_rows) |->
                [j \in 1..Len(explode(alert_rows[i].informed_entities)) |->
                    AlertEntityRow(alert_rows[i],
                                   explode(alert_rows[i].informed_entities)[j])]])

-----------------------------------------------------------------------------
(* The Bronze records the pipeline is run on *)

Headers == {[timestamp |-> Some(4)], [timestamp |-> None]}

VehicleDescriptors == {None, Some([id |-> Some("v1"), label |-> Some("L1")])}

TripDescriptor(route_id, start_date, start_time) ==
    [route_id |-> route_id, direction_id |-> Some(1), start_date |-> start_date,
     start_time |-> start_time, schedule_relationship |-> Some("SCHEDULED")]

FullTrip == TripDescriptor(Some("55"), Some("20250101"), Some("08:00:00"))

\* Speeds in tenths of a metre per second: absent, 0.0 and 10.0.
Speeds == {None, Some(0), Some(100)}

Positions ==
    {None} \cup
    {Some([latitude |-> Some(60), longitude |-> Some(25), bearing |-> b,
           speed |-> sp, odometer |-> None]) :
        b \in {None, Some(90)}, sp \in Speeds}

\* The vehicle variant of an entity, each of its blocks present or absent.
VehiclePositions ==
    {[vehicle |-> vd, trip |-> tr, position |-> po,
      current_status |-> Some("IN_TRANSIT_TO"), occupancy_status |-> None,
      stop_id |-> Some("s1"), timestamp |-> Some(5)] :
        vd \in VehicleDescriptors, tr \in {None, Some(FullTrip)}, po \in Positions}

\* A feed entity: an id and its variant sub-fields.
Entity(id, vehicle, trip_update, alert) ==
    [id |-> Some(id), vehicle |-> vehicle, trip_update |-> trip_update,
     alert |-> alert]

\* The trip descriptors of a trip update: each join-key component present or
\* absent.
TripDescriptors ==
    {TripDescriptor(r, d, t) :
        r \in {None, Some("55")}, d \in {None, Some("20250101")},
        t \in {None, Some("08:00:00")}}

StopIds == <<"s1", "s2", "s3", "s4", "s5">>

StopTimeEvent(time) ==
    Some([time |-> Some(time), uncertainty |-> Some(30), delay |-> None])

\* The stop-time update at position j of its list; `kind` tells which of its
\* arrival and departure blocks are present.
StopTimeUpdate(j, kind) ==
    [stop_id |-> Some(StopIds[j]), stop_sequence |-> Some(j),
     schedule_relationship |-> Some("SCHEDULED"),
     arrival |-> IF kind \in {0, 2} THEN StopTimeEvent(j) ELSE None,
     departure |-> IF kind \in {0, 1} THEN StopTimeEvent(j + 1) ELSE None,
     stop_time_properties |-> None]

\* The stop-time-update lists: absent, or of 0..MaxStops elements with the
\* four kinds of element in rotation.
StopLists ==
    {None} \cup
    {Some([j \in 1..n |-> StopTimeUpdate(j, (k + j) % 4)]) :
        n \in 0..MaxStops, k \in 0..3}

TripUpdates ==
    {[trip |-> Some(tr), stop_time_update |-> sl, timestamp |-> Some(5)] :
        tr \in TripDescriptors, sl \in StopLists}

Translation(text, language) == [text |-> Some(text), language |-> Some(language)]

\* The translation arrays of a header text: missing, empty, of one locale,
\* and of two locales with the same or another first element.
TranslationLists ==
    {None, Some(<< >>),
     Some(<<Translation("Delay", "en")>>),
     Some(<<Translation("Delay", "en"), Translation("Viive", "fi")>>),
     Some(<<Translation("Delay", "en"), Translation("Forsening", "sv")>>),
     Some(<<Translation("Viive", "fi"), Translation("Delay", "en")>>)}

TranslatedStrings == {None} \cup {Some([translation |-> l]) : l \in TranslationLists}

\* The description text and the url of an alert, as a pair: both missing,
\* of one locale and empty, both of two locales.
Texts ==
    {<<None, None>>,
     <<Some([translation |-> Some(<<Translation("Roadworks", "en")>>)]),
       Some([translation |-> Some(<< >>)])>>,
     <<Some([translation |-> Some(<<Translation("Roadworks", "en"),
                                    Translation("Tietyo", "fi")>>)]),
       Some([translation |-> Some(<<Translation("hsl.fi/en", "en"),
                                    Translation("hsl.fi", "fi")>>)])>>}

\* The informed entity at position j of its list: an agency, a route or a
\* stop, by `kind`.
EntitySelector(j, kind) ==
    [agency_id |-> IF kind = 0 THEN Some("HSL") ELSE None,
     route_id |-> IF kind = 1 THEN Some("55") ELSE None,
     stop_id |-> IF kind = 2 THEN Some(StopIds[j]) ELSE None]

\* The informed-entity lists: absent, or of 0..MaxInformed elements with the
\* three kinds of element in rotation.
InformedLists ==
    {None} \cup
    {Some([j \in 1..n |-> EntitySelector(j, (k + j) % 3)]) :
        n \in 0..MaxInformed, k \in 0..2}

Alert(cause, effect, header_text, description_text, url_text, informed_entity) ==
    [cause |-> Some(cause), effect |-> Some(effect),
     severity_level |-> Some("WARNING"), header_text |-> header_text,
     description_text |-> description_text, url |-> url_text,
     active_period |-> None, informed_entity |-> informed_entity]

Alerts ==
    {Alert("CONSTRUCTION", "DETOUR", h, t[1], t[2], il) :
        h \in TranslatedStrings, t \in Texts, il \in InformedLists}

\* One entity of each variant with every block present, and one with no
\* variant at all: the other entities of a record.
FullVehicle ==
    Entity("e2",
           Some([vehicle |-> Some([id |-> Some("v2"), label |-> Some("L2")]),
                 trip |-> Some(FullTrip),
                 position |-> Some([latitude |-> Some(61), longitude |-> Some(24),
                                    bearing |-> Some(180), speed |-> Some(100),
                                    odometer |-> None]),
                 current_status |-> Some("STOPPED_AT"), occupancy_status |-> None,
                 stop_id |-> Some("s2"), timestamp |-> Some(4)]),
           None, None)

FullTripUpdate ==
    Entity("e3", None,
           Some([trip |-> Some(TripDescriptor(Some("20"), Some("20250102"),
                                              Some("09:30:00"))),
                 stop_time_update |-> Some(<<StopTimeUpdate(4, 0)>>),
                 timestamp |-> Some(4)]),
           None)

FullAlert ==
    Entity("e4", None, None,
           Some(Alert("STRIKE", "NO_SERVICE",
                      Some([translation |-> Some(<<Translation("Strike", "en")>>)]),
                      None, None, Some(<<EntitySelector(5, 2)>>))))

NoVariant == Entity("e5", None, None, None)

\* s with x inserted at position k.
InsertAt(s, k, x) == SubSeq(s, 1, k - 1) \o <<x>> \o SubSeq(s, k, Len(s))

\* The entity arrays of at most MaxEntities elements made of one entity of
\* `focus` among entities of `others`; also the missing and the empty array.
EntityArrays(focus, others) ==
    {None, Some(<< >>)} \cup
    UNION {{Some(InsertAt(c, k, f)) : k \in 1..(Len(c) + 1), f \in focus} :
              c \in UNION {[1..n -> others] : n \in 0..(MaxEntities - 1)}}

BronzeTable(table, focus, others) ==
    {[table |-> table, header |-> h, dt |-> Some("2025-01-01"), entity |-> a] :
        h \in Headers, a \in EntityArrays(focus, others)}

BronzeTables ==
    {"bronze_vehicle_positions", "bronze_trip_updates", "bronze_service_alerts"}

\* The records of a Bronze table.
BronzeRecords(table) ==
    CASE table = "bronze_vehicle_positions" ->
             BronzeTable(table,
                         {Entity("e1", Some(v), None, None) : v \in VehiclePositions}
                             \cup {NoVariant},
                         {FullVehicle, FullTripUpdate})
      [] table = "bronze_trip_updates" ->
             BronzeTable(table,
                         {Entity("e1", None, Some(tu), None) : tu \in TripUpdates}
                             \cup {NoVariant},
                         {FullTripUpdate, FullVehicle})
      [] table = "bronze_service_alerts" ->
             BronzeTable(table,
                         {Entity("e1", None, None, Some(al)) : al \in Alerts}
                             \cup {NoVariant},
                         {FullAlert, FullVehicle})

-----------------------------------------------------------------------------
(* One update of the pipeline on one Bronze record *)

SilverTables ==
    {"silver_vehicle_positions", "silver_trip_updates", "silver_service_alerts",
     "silver_service_alerts_entities"}

\* The pipeline starts an update with one new record in one Bronze table; no
\* poller runs in this specification.
SilverInit ==
    /\ argv = <<Script>>
    /\ url = main(argv).url
    /\ message_name = main(argv).message_name
    /\ poll_interval = main(argv).poll_interval * TicksPerSecond
    /\ current_data = None
    /\ last_data = None
    /\ consecutive_errors = 0
    /\ files = << >>
    /\ now = 0
    /\ slept = 0
    /\ step = "start"
    /\ exc = "none"
    /\ exit = "running"
    /\ run = [payload |-> None, writes |-> 0]
    /\ streak = 0
    /\ \E table \in BronzeTables : bronze \in BronzeRecords(table)
    /\ silver = [t \in SilverTables |-> << >>]
    /\ refreshed = {}
    /\ pollers = << >>
    /\ source = << >>
    /\ consumed = << >>

\* The update computes Silver table `table` from the rows `rows`.
Refresh(table, rows) ==
    /\ table \notin refreshed
    /\ silver' = [silver EXCEPT ![table] = rows]
    /\ refreshed' = refreshed \cup {table}
    /\ UNCHANGED <<bronze, poll_interval, message_name, current_data, last_data,
                   consecutive_errors, files, now, slept, step, exc, exit, run,
                   streak, argv, url, fleet_vars, stream_vars>>

RefreshVehiclePositions ==
    /\ bronze.table = "bronze_vehicle_positions"
    /\ Refresh("silver_vehicle_positions", silver_vehicle_positions(bronze))

RefreshTripUpdates ==
    /\ bronze.table = "bronze_trip_updates"
    /\ Refresh("silver_trip_updates", silver_trip_updates(bronze))

RefreshServiceAlerts ==
    /\ bronze.table = "bronze_service_alerts"
    /\ Refresh("silver_service_alerts", silver_service_alerts(bronze))

\* Reads silver_service_alerts, so runs after it.
RefreshServiceAlertsEntities ==
    /\ "silver_service_alerts" \in refreshed
    /\ Refresh("silver_service_alerts_entities",
               silver_service_alerts_entities(silver["silver_service_alerts"]))

SilverNext ==
    \/ RefreshVehiclePositions
    \/ RefreshTripUpdates
    \/ RefreshServiceAlerts
    \/ RefreshServiceAlertsEntities

SilverSpec == SilverInit /\ [][SilverNext]_vars

-----------------------------------------------------------------------------
(* Properties of the Silver tables *)

\* The entities of the Bronze record, in order.
Entities == IF bronze.entity = None THEN << >> ELSE Get(bronze.entity)

\* The entity at position i has its vehicle-position variant populated.
HasVehicle(i) == Entities[i].vehicle # None

\* C14: silver_vehicle_positions emits one row per entity whose vehicle
\* variant is populated and none for any other entity: the row count of a
\* record is its number of vehicle-position entities.
C14_RowPerVehicleEntity ==
    "silver_vehicle_positions" \in refreshed =>
        Len(silver["silver_vehicle_positions"]) =
            Cardinality({i \in 1..Len(Entities) : HasVehicle(i)})

\* The speed of the entity at position i, in tenths of a metre per second.
SpeedOf(i) ==
    LET e == Entities[i]
    IN  IF e.vehicle = None THEN None
        ELSE IF Get(e.vehicle).position = None THEN None
        ELSE Get(Get(e.vehicle).position).speed

\* C15: every entity has its row, whose speed_kmh is the speed times 3.6 when
\* the speed is present (10.0 m/s gives 36.0 km/h) and null, not zero, when
\* it is absent.
C15_SpeedDerivation ==
    "silver_vehicle_positions" \in refreshed =>
        LET rows == silver["silver_vehicle_positions"]
        IN  /\ Len(rows) = Len(Entities)
            /\ \A i \in 1..Len(Entities) :
                  /\ rows[i].entity_id = Entities[i].id
                  /\ rows[i].speed_mps = SpeedOf(i)
                  /\ SpeedOf(i) = None => rows[i].speed_kmh = None
                  /\ SpeedOf(i) # None =>
                        /\ rows[i].speed_kmh # None
                        /\ 10 * Get(rows[i].speed_kmh) = 360 * Get(SpeedOf(i))
                  /\ SpeedOf(i) = Some(100) => rows[i].speed_kmh = Some(3600)

\* A vehicle with a position but no speed, next to one moving at 10.0 m/s.
C15_Witness ==
    /\ "silver_vehicle_positions" \in refreshed
    /\ \E i, j \in 1..Len(silver["silver_vehicle_positions"]) :
          LET rows == silver["silver_vehicle_positions"]
          IN  /\ rows[i].latitude # None
              /\ rows[i].speed_mps = None
              /\ rows[i].speed_kmh = None
              /\ rows[j].speed_mps = Some(100)
              /\ rows[j].speed_kmh = Some(3600)

\* The stop-time updates of the entity at position i; none when the entity
\* is no trip update or has no list.
StopsOf(i) ==
    LET e == Entities[i]
    IN  IF e.trip_update = None THEN << >>
        ELSE IF Get(e.trip_update).stop_time_update = None THEN << >>
        ELSE Get(Get(e.trip_update).stop_time_update)

\* The trip descriptor of the trip-update entity at position i.
TripOf(i) == Get(Get(Entities[i].trip_update).trip)

RECURSIVE RowsBefore(_)
\* The number of stop-time updates of the entities before position i.
RowsBefore(i) == IF i = 1 THEN 0 ELSE RowsBefore(i - 1) + Len(StopsOf(i - 1))

\* The epoch second a timestamp column stands for.
EpochSecond(ts) == Get(ts).day * SecondsPerDay + Get(ts).second

\* The row carries the time and uncertainty of the stop-time event, or nulls
\* for an absent event.
CarriesEvent(time, uncertainty, event) ==
    IF event = None
    THEN time = None /\ uncertainty = None
    ELSE /\ time # None
         /\ Some(EpochSecond(time)) = Get(event).time
         /\ uncertainty = Get(event).uncertainty

\* C16: a trip-update entity with n stop-time updates (an absent list being
\* n = 0) yields exactly n rows of silver_trip_updates, one per element in
\* order, each with the entity's id and trip fields and with the stop_id,
\* stop_sequence, arrival and departure of its own element.
C16_StopFanOut ==
    "silver_trip_updates" \in refreshed =>
        LET rows == silver["silver_trip_updates"]
        IN  /\ Len(rows) = RowsBefore(Len(Entities) + 1)
            /\ \A i \in 1..Len(Entities) : \A j \in 1..Len(StopsOf(i)) :
                  LET row == rows[RowsBefore(i) + j]
                      stop == StopsOf(i)[j]
                  IN  /\ row.entity_id = Entities[i].id
                      /\ row.route_id = TripOf(i).route_id
                      /\ row.direction_id = TripOf(i).direction_id
                      /\ row.trip_start_date = TripOf(i).start_date
                      /\ row.trip_start_time = TripOf(i).start_time
                      /\ row.trip_schedule_relationship =
                             TripOf(i).schedule_relationship
                      /\ row.stop_id = stop.stop_id
                      /\ row.stop_sequence = stop.stop_sequence
                      /\ CarriesEvent(row.predicted_arrival_time,
                                      row.arrival_uncertainty_seconds, stop.arrival)
                      /\ CarriesEvent(row.predicted_departure_time,
                                      row.departure_uncertainty_seconds,
                                      stop.departure)

\* An entity with one stop-time update followed by an entity with three: four
\* rows, the last three sharing the entity and differing in stop.
C16_Witness ==
    /\ "silver_trip_updates" \in refreshed
    /\ Len(Entities) = 2
    /\ Len(StopsOf(1)) = 1
    /\ Len(StopsOf(2)) = 3
    /\ LET rows == silver["silver_trip_updates"]
       IN  /\ Len(rows) = 4
           /\ rows[1].entity_id # rows[2].entity_id
           /\ rows[2].entity_id = rows[4].entity_id
           /\ rows[2].stop_id # rows[3].stop_id
           /\ rows[3].stop_id # rows[4].stop_id
           /\ rows[2].predicted_arrival_time = None
           /\ rows[3].predicted_arrival_time # None

\* C17: on every row of silver_trip_updates whose route_id, trip_start_date
\* and trip_start_time are all present, trip_id is the three joined with "_"
\* ("55", "20250101", "08:00:00" gives "55_20250101_08:00:00").
C17_JoinKey ==
    "silver_trip_updates" \in refreshed =>
        \A k \in 1..Len(silver["silver_trip_updates"]) :
            LET row == silver["silver_trip_updates"][k]
            IN  (row.route_id # None /\ row.trip_start_date # None
                     /\ row.trip_start_time # None) =>
                    /\ row.trip_id =
                           Some(Get(row.route_id) \o "_" \o Get(row.trip_start_date)
                                    \o "_" \o Get(row.trip_start_time))
                    /\ (row.route_id = Some("55")
                            /\ row.trip_start_date = Some("20250101")
                            /\ row.trip_start_time = Some("08:00:00")) =>
                           row.trip_id = Some("55_20250101_08:00:00")

\* Rows of two trips, each with its own key.
C17_Witness ==
    /\ "silver_trip_updates" \in refreshed
    /\ \E k, l \in 1..Len(silver["silver_trip_updates"]) :
          LET rows == silver["silver_trip_updates"]
          IN  /\ rows[k].route_id = Some("55")
              /\ rows[k].trip_id = Some("55_20250101_08:00:00")
              /\ rows[l].trip_id = Some("20_20250102_09:30:00")

\* The field f of the first translation of a translated string; null when
\* the string, its array or the array's first element is missing.
FirstOf(text, f) ==
    IF text = None THEN None
    ELSE IF Get(text).translation = None THEN None
    ELSE IF Len(Get(Get(text).translation)) = 0 THEN None
    ELSE Get(Get(text).translation)[1][f]

\* Translations that replace the elements after the first.
Tails ==
    {<< >>,
     <<Translation("Viive", "fi")>>,
     <<Translation("Forsening", "sv"), Translation("Viive", "fi")>>}

\* The translated string with the elements after the first replaced by tail.
WithTail(text, tail) ==
    IF FirstOf(text, "text") = None
    THEN text
    ELSE Some([translation |-> Some(<<Get(Get(text).translation)[1]>> \o tail)])

\* The record with, in every alert, the elements after the first of every
\* translation array replaced by tail.
RecordWithTail(rec, tail) ==
    LET EntityWithTail(e) ==
            IF e.alert = None
            THEN e
            ELSE [e EXCEPT !.alert =
                     Some([Get(@) EXCEPT !.header_text = WithTail(@, tail),
                                         !.description_text = WithTail(@, tail),
                                         !.url = WithTail(@, tail)])]
    IN  IF rec.entity = None
        THEN rec
        ELSE [rec EXCEPT !.entity =
                 Some([i \in 1..Len(Get(@)) |-> EntityWithTail(Get(@)[i])])]

\* C18: every alert entity has its one row of silver_service_alerts, whose
\* header text/language, description text/language and url are those of the
\* first element of the translation array, null when the array is empty or
\* missing; a record differing only in the elements after the first gives
\* the same rows.
C18_FirstTranslation ==
    "silver_service_alerts" \in refreshed =>
        LET rows == silver["silver_service_alerts"]
        IN  /\ Len(rows) = Len(Entities)
            /\ \A i \in 1..Len(Entities) :
                  Entities[i].alert # None =>
                      LET alert == Get(Entities[i].alert)
                      IN  /\ rows[i].alert_id = Entities[i].id
                          /\ rows[i].header_text = FirstOf(alert.header_text, "text")
                          /\ rows[i].header_language =
                                 FirstOf(alert.header_text, "language")
                          /\ rows[i].description_text =
                                 FirstOf(alert.description_text, "text")
                          /\ rows[i].description_language =
                                 FirstOf(alert.description_text, "language")
                          /\ rows[i].url = FirstOf(alert.url, "text")
            /\ \A tail \in Tails :
                  silver_service_alerts(RecordWithTail(bronze, tail)) = rows

\* An alert with a header in two locales and an empty url array, next to
\* another alert; other records differ from it after the first translation.
C18_Witness ==
    /\ "silver_service_alerts" \in refreshed
    /\ \A tail \in Tails \ {<< >>} : RecordWithTail(bronze, tail) # bronze
    /\ \E i, j \in 1..Len(Entities) :
          /\ i # j
          /\ Entities[i].alert # None
          /\ Entities[j].alert # None
          /\ FirstOf(Get(Entities[i].alert).header_text, "text") # None
          /\ Len(Get(Get(Get(Entities[i].alert).header_text).translation)) = 2
          /\ Get(Entities[i].alert).url # None
          /\ silver["silver_service_alerts"][i].header_text = Some("Viive")
          /\ silver["silver_service_alerts"][i].header_language = Some("fi")
          /\ silver["silver_service_alerts"][i].url = None
          /\ silver["silver_service_alerts"][j].header_text = Some("Strike")

\* The informed entities of the entity at position i; none when the entity
\* is no alert or has no list.
InformedOf(i) ==
    LET e == Entities[i]
    IN  IF e.alert = None THEN << >>
        ELSE IF Get(e.alert).informed_entity = None THEN << >>
        ELSE Get(Get(e.alert).informed_entity)

RECURSIVE InformedBefore(_)
\* The number of informed entities of the entities before position i.
InformedBefore(i) ==
    IF i = 1 THEN 0 ELSE InformedBefore(i - 1) + Len(InformedOf(i - 1))

\* C19: an alert with m informed entities yields exactly m rows of
\* silver_service_alerts_entities, one per element in order, each with the
\* alert's alert_id, cause, effect and severity_level and with the agency,
\* route and stop id of its own element; m = 0 yields no row.
C19_InformedFanOut ==
    "silver_service_alerts_entities" \in refreshed =>
        LET rows == silver["silver_service_alerts_entities"]
        IN  /\ Len(rows) = InformedBefore(Len(Entities) + 1)
            /\ \A i \in 1..Len(Entities) : \A j \in 1..Len(InformedOf(i)) :
                  LET row == rows[InformedBefore(i) + j]
                      alert == Get(Entities[i].alert)
                      selector == InformedOf(i)[j]
                  IN  /\ row.alert_id = Entities[i].id
                      /\ row.cause = alert.cause
                      /\ row.effect = alert.effect
                      /\ row.severity_level = alert.severity_level
                      /\ row.affected_agency_id = selector.agency_id
                      /\ row.affected_route_id = selector.route_id
                      /\ row.affected_stop_id = selector.stop_id

\* An alert on one stop followed by an alert with two informed entities:
\* three rows, the last two with the second alert's cause and effect.
C19_Witness ==
    /\ "silver_service_alerts_entities" \in refreshed
    /\ Len(Entities) = 2
    /\ Len(InformedOf(1)) = 1
    /\ Len(InformedOf(2)) = 2
    /\ LET rows == silver["silver_service_alerts_entities"]
       IN  /\ Len(rows) = 3
           /\ rows[1].cause = Some("STRIKE")
           /\ rows[2].cause = Some("CONSTRUCTION")
           /\ rows[3].cause = Some("CONSTRUCTION")
           /\ rows[2].effect = rows[3].effect
           /\ rows[2].alert_id = rows[3].alert_id
           /\ rows[2].affected_route_id # rows[3].affected_route_id

\* The field f of a block of the input, null when the block is absent.
FieldOrNull(block, f) == IF block = None THEN None ELSE Get(block)[f]

\* The row of a vehicle-position entity has the columns of its present
\* blocks and nulls for the columns of its absent blocks, geometry_point
\* left aside.
VehicleRowPropagates(row, e) ==
    LET vehicle == Get(e.vehicle)
    IN  /\ row.entity_id = e.id
        /\ row.vehicle_id = FieldOrNull(vehicle.vehicle, "id")
        /\ row.vehicle_label = FieldOrNull(vehicle.vehicle, "label")
        /\ row.route_id = FieldOrNull(vehicle.trip, "route_id")
        /\ row.direction_id = FieldOrNull(vehicle.trip, "direction_id")
        /\ row.trip_start_date = FieldOrNull(vehicle.trip, "start_date")
        /\ row.trip_start_time = FieldOrNull(vehicle.trip, "start_time")
        /\ row.schedule_relationship =
               FieldOrNull(vehicle.trip, "schedule_relationship")
        /\ row.latitude = FieldOrNull(vehicle.position, "latitude")
        /\ row.longitude = FieldOrNull(vehicle.position, "longitude")
        /\ row.bearing = FieldOrNull(vehicle.position, "bearing")
        /\ row.speed_mps = FieldOrNull(vehicle.position, "speed")
        /\ row.odometer = FieldOrNull(vehicle.position, "odometer")
        /\ row.bearing_degrees = FieldOrNull(vehicle.position, "bearing")
        /\ (row.speed_kmh = None) = (FieldOrNull(vehicle.position, "speed") = None)
        /\ row.current_status = vehicle.current_status
        /\ row.occupancy_status = vehicle.occupancy_status
        /\ row.current_stop_id = vehicle.stop_id
        /\ (row.vehicle_timestamp = None) = (vehicle.timestamp = None)

\* The row of a stop-time update has the columns of its present arrival and
\* departure blocks, nulls for an absent one, and its other columns.
StopRowPropagates(row, e, stop) ==
    /\ row.entity_id = e.id
    /\ row.stop_id = stop.stop_id
    /\ row.stop_sequence = stop.stop_sequence
    /\ row.stop_schedule_relationship = stop.schedule_relationship
    /\ CarriesEvent(row.predicted_arrival_time, row.arrival_uncertainty_seconds,
                    stop.arrival)
    /\ CarriesEvent(row.predicted_departure_time,
                    row.departure_uncertainty_seconds, stop.departure)

\* C20: a vehicle-position entity with any of its trip, position or vehicle
\* descriptor blocks absent, and a stop-time update with its arrival or
\* departure block absent, still has its row, in which exactly the columns
\* derived from the absent blocks are null and the others are unchanged.
C20_NullPropagation ==
    /\ "silver_vehicle_positions" \in refreshed =>
          LET rows == silver["silver_vehicle_positions"]
          IN  /\ Len(rows) = Len(Entities)
              /\ \A i \in 1..Len(Entities) :
                    HasVehicle(i) =>
                        /\ VehicleRowPropagates(rows[i], Entities[i])
                        /\ rows[i].geometry_point =
                               IF Get(Entities[i].vehicle).position = None
                               THEN None
                               ELSE Some([x |-> rows[i].longitude,
                                          y |-> rows[i].latitude])
    /\ "silver_trip_updates" \in refreshed =>
          LET rows == silver["silver_trip_updates"]
          IN  /\ Len(rows) = RowsBefore(Len(Entities) + 1)
              /\ \A i \in 1..Len(Entities) : \A j \in 1..Len(StopsOf(i)) :
                    StopRowPropagates(rows[RowsBefore(i) + j], Entities[i],
                                      StopsOf(i)[j])

-----------------------------------------------------------------------------
(* Properties of the decoder, the entry point and the loop *)

\* The number of variant sub-fields an entity of a document has.
VariantCount(entity) ==
    Cardinality({f \in {"vehicle", "trip_update", "alert"} : entity[f]})

\* C21: every entity of every persisted document has exactly one of the
\* variant sub-fields vehicle, trip_update, alert; a payload with an entity
\* of no or several variants is a decode error and is not persisted.
C21_OneVariantPerEntity ==
    \A p \in DOMAIN files :
        files[p].complete =>
            \A i \in 1..Len(files[p].json.entity) :
                VariantCount(files[p].json.entity[i]) = 1

-----------------------------------------------------------------------------
(* The entry point: main() on a command line *)

\* The number of key/value pairs of a command line.
MaxPairs == 4

\* The key/value pairs a command line is made of: the three keys main()
\* reads, one with a value float() rejects, and a key it does not read.
ArgPairs ==
    {<<"gtfs_rt_url", "https://feed/trip-updates">>,
     <<"message_name", "trip_updates">>,
     <<"message_name", "service_alerts">>,
     <<"poll_interval_seconds", "1">>,
     <<"poll_interval_seconds", "soon">>,
     <<"volume_path", "/tmp">>}

\* sys.argv: the script, at most n pairs and possibly a key without value.
Argvs(n) ==
    {<<Script>> \o Flatten(ps) \o last :
        ps \in UNION {[1..k -> ArgPairs] : k \in 0..n},
        last \in {<< >>, <<"message_name">>}}

\* The process has been started and main() has not run yet.
MainInit ==
    /\ argv \in Argvs(MaxPairs)
    /\ url = None
    /\ message_name = None
    /\ poll_interval = None
    /\ current_data = None
    /\ last_data = None
    /\ consecutive_errors = 0
    /\ files = << >>
    /\ now = 0
    /\ slept = 0
    /\ step = "start"
    /\ exc = "none"
    /\ exit = "entry"
    /\ run = [payload |-> None, writes |-> 0]
    /\ streak = 0
    /\ bronze = None
    /\ silver = << >>
    /\ refreshed = {}
    /\ pollers = << >>
    /\ source = << >>
    /\ consumed = << >>

\* main() calls run_continuous_ingestion with the parameters m.
Start(m) ==
    /\ url' = m.url
    /\ message_name' = m.message_name
    /\ poll_interval' = m.poll_interval * TicksPerSecond
    /\ exit' = "running"
    /\ UNCHANGED <<argv, current_data, last_data, consecutive_errors, files, now,
                   slept, step, exc, run, streak, pipeline_vars, fleet_vars,
                   stream_vars>>

\* The `else` branch: fewer than seven elements in sys.argv.
MainFallback ==
    /\ exit = "entry"
    /\ ~EnoughArgs(argv)
    /\ Start(main(argv))

\* The `if` branch: the arguments are parsed and the parameters read.
MainParse ==
    /\ exit = "entry"
    /\ EnoughArgs(argv)
    /\ main(argv) # ValueError
    /\ Start(main(argv))

\* The `if` branch, float() raising: the exception leaves main() before the
\* poller is started.
MainValueError ==
    /\ exit = "entry"
    /\ EnoughArgs(argv)
    /\ main(argv) = ValueError
    /\ exc' = "ValueError"
    /\ exit' = "crashed"
    /\ UNCHANGED <<argv, url, message_name, poll_interval, current_data, last_data,
                   consecutive_errors, files, now, slept, step, run, streak,
                   pipeline_vars, fleet_vars, stream_vars>>

MainNext == MainFallback \/ MainParse \/ MainValueError

MainSpec == MainInit /\ [][MainNext]_vars

\* The number of complete key/value pairs on the command line.
PairCount == (Len(argv) - 1) \div 2

\* The key is the key of some complete pair of the command line.
Supplied(key) ==
    \E i \in 1..PairCount : argv[2 * i] = key

\* C22: with fewer than three key/value pairs main() does not fail and starts
\* the poller with the default url, message name and poll interval, whatever
\* was supplied; with three pairs or more, each of the three parameters whose
\* key is not supplied has its default.
C22_ParameterFallback ==
    exit # "entry" =>
        /\ PairCount < 3 =>
              /\ exit = "running"
              /\ url = DEFAULT_GTFS_RT_URL
              /\ message_name = "vehicle_positions"
              /\ poll_interval = DEFAULT_POLL_INTERVAL_SECONDS * TicksPerSecond
        /\ PairCount >= 3 /\ exit = "running" =>
              /\ ~Supplied("gtfs_rt_url") => url = DEFAULT_GTFS_RT_URL
              /\ ~Supplied("message_name") => message_name = "vehicle_positions"
              /\ ~Supplied("poll_interval_seconds") =>
                     poll_interval = DEFAULT_POLL_INTERVAL_SECONDS * TicksPerSecond

\* Two pairs and a key without value: the supplied message name is ignored.
C22_Witness ==
    /\ exit = "running"
    /\ Len(argv) = 6
    /\ Supplied("message_name")
    /\ Supplied("gtfs_rt_url")
    /\ message_name = "vehicle_positions"
    /\ url = DEFAULT_GTFS_RT_URL

-----------------------------------------------------------------------------
(* The loop under fair scheduling: a process that can take a step takes one *)

\* main() called without arguments: the job of the defaults.
FairInit == Init /\ argv = <<Script>>

FairSpec == FairInit /\ [][Next]_vars /\ WF_vars(Next)

\* C23: run_continuous_ingestion never returns normally: it is left only by
\* the exception of the fatal threshold or by a KeyboardInterrupt; every other
\* step is an iteration with its fetch, and as long as the loop has not been
\* left another one follows, up to the horizon of the model.
C23_LoopsIndefinitely ==
    /\ [](exit \in {"running", "fatal", "graceful"})
    /\ [](exit = "fatal" =>
              /\ exc \in {"RequestException", "DecodeError", "OSError"}
              /\ consecutive_errors >= max_consecutive_errors)
    /\ [](exit = "graceful" => exc = "KeyboardInterrupt")
    /\ [][exit' = "running" =>
              /\ step' \in FailureSteps \cup CleanSteps
              /\ now' > now]_vars
    /\ (exit = "running" /\ now <= MaxTick)
           ~> (exit # "running" \/ now > MaxTick)

\* The loop is still running at the horizon, after a failure-free iteration.
C23_Witness ==
    /\ exit = "running"
    /\ now > MaxTick
    /\ step = "skipped"
    /\ exc = "none"
    /\ consecutive_errors = 0

\* C24: cancellation takes effect only at the sleep between iterations: the
\* step that ends the run by a stop signal fetches nothing and touches no file,
\* so it leaves every file a completely written record.
C24_CancelOnlyAtSleep ==
    [][(exit = "running" /\ exit' = "graceful") =>
           /\ files' = files
           /\ current_data' = current_data
           /\ (\A p \in DOMAIN files : files[p].complete) =>
                  (\A p \in DOMAIN files' : files'[p].complete)]_vars

\* C25: a write failure leaves the Bronze Log as it was: the failed iteration
\* adds no file and changes none, keeps the last stored bytes, counts as one
\* error, and leaves the fetched bytes different from the last stored bytes,
\* so that the next fetch of them is written and not skipped.
C25_WriteFailureLeavesLog ==
    [][(exit = "running" /\ step' = "write_error") =>
           /\ files' = files
           /\ last_data' = last_data
           /\ consecutive_errors' = consecutive_errors + 1
           /\ \A d \in Payloads :
                  current_data' = Some(d) => ShouldSave(d, last_data')]_vars

\* C28: deduplication is against the last stored snapshot only: last_data
\* changes only in an iteration that saved, to the payload whose document that
\* iteration wrote; after every save it is the payload just written; a failed
\* iteration leaves it alone; and a fetch equal to it is skipped without a
\* write, whatever was fetched before.
C28_LastStoredOnly ==
    [][exit = "running" =>
           /\ last_data' # last_data => step' = "saved"
           /\ step' = "saved" =>
                  \E d \in Payloads :
                      /\ last_data' = Some(d)
                      /\ current_data' = Some(d)
                      /\ files'[FilePath(message_name, now)]
                             = FileText(protobuf_to_json(d))
           /\ step' \in FailureSteps => last_data' = last_data
           /\ (step' \in CleanSteps \cup {"decode_error", "write_error"}
                   /\ current_data' = last_data) =>
                  /\ step' = "skipped"
                  /\ files' = files
                  /\ last_data' = last_data]_vars

\* Payload A was stored, a later write of other bytes failed and left its
\* partial file behind, and A was then fetched again and skipped.
C28_Witness ==
    /\ step = "skipped"
    /\ consecutive_errors > 0
    /\ last_data # None
    /\ current_data = last_data
    /\ \E p, q \in DOMAIN files :
           /\ files[p].complete
           /\ Some(files[p].json) = {protobuf_to_json(d) : d \in last_data}
           /\ ~files[q].complete
           /\ q.epoch > p.epoch

\* The Bronze Log holds a complete record of payload d.
Recorded(d) ==
    \E p \in DOMAIN files : files[p] = FileText(protobuf_to_json(d))

\* C29: no deduplication beyond consecutive fetches: when A and then B were
\* saved and the next iteration fetches A again and saves it, the Bronze Log
\* gains a record: it holds the records of the first A and of B and a new one
\* of the second A.
C29_SavedAgainAfterOther ==
    [][\A A, B \in Payloads :
           (/\ A # B
            /\ step = "saved"
            /\ last_data = Some(B)
            /\ Recorded(A)
            /\ Recorded(B)
            /\ step' = "saved"
            /\ current_data' = Some(A))
           => Cardinality(DOMAIN files') = Cardinality(DOMAIN files) + 1]_vars

\* C30: in silver_trip_updates a trip-update entity that lacks route_id,
\* start_date or start_time still gives one row per stop-time update, and on
\* each of these rows trip_id is null, not a string built of the parts present.
C30_AbsentKeyComponent ==
    "silver_trip_updates" \in refreshed =>
        /\ \A k \in 1..Len(silver["silver_trip_updates"]) :
               LET row == silver["silver_trip_updates"][k]
               IN  (row.route_id = None \/ row.trip_start_date = None
                        \/ row.trip_start_time = None) => row.trip_id = None
        /\ \A i \in 1..Len(Entities) :
               (/\ Entities[i].trip_update # None
                /\ Get(Entities[i].trip_update).trip # None
                /\ (TripOf(i).route_id = None \/ TripOf(i).start_date = None
                        \/ TripOf(i).start_time = None)) =>
                   \A j \in 1..Len(StopsOf(i)) :
                       LET row == silver["silver_trip_updates"][RowsBefore(i) + j]
                       IN  /\ row.entity_id = Entities[i].id
                           /\ row.stop_id = StopsOf(i)[j].stop_id
                           /\ row.trip_id = None

\* A row of a trip with route "55" and start time "08:00:00" and no start date.
C30_Witness ==
    /\ "silver_trip_updates" \in refreshed
    /\ \E k \in 1..Len(silver["silver_trip_updates"]) :
          LET row == silver["silver_trip_updates"][k]
          IN  /\ row.route_id = Some("55")
              /\ row.trip_start_date = None
              /\ row.trip_start_time = Some("08:00:00")
              /\ row.stop_id # None
              /\ row.trip_id = None

-----------------------------------------------------------------------------
(* Several jobs side by side: one process per message name, one volume *)

\* The message names of the three feeds.
PollerNames == {"vehicle_positions", "trip_updates", "service_alerts"}

\* The clock value after which a poller of the fleet starts no iteration.
MaxPollTick == 1

\* The locals of one poller process that has failed n times in a row since it
\* started and has stored nothing: `last_data = None`, the counter, the
\* instant of its next iteration, and the outcome of its main().
Started(n) ==
    [last_data |-> None, consecutive_errors |-> n, now |-> 0, exit |-> "running"]

\* Each job is started on its own: at the first instant of the model the
\* pollers have just started, but for the one of vehicle_positions, which may
\* have been running without reaching its endpoint since it started, one
\* failure short of the threshold.
MultiInit ==
    /\ \E n \in {0, max_consecutive_errors - 1} :
           pollers = [m \in PollerNames |->
                         IF m = "vehicle_positions" THEN Started(n) ELSE Started(0)]
    /\ files = << >>
    /\ argv = <<Script>>
    /\ url = main(argv).url
    /\ message_name = main(argv).message_name
    /\ poll_interval = main(argv).poll_interval * TicksPerSecond
    /\ current_data = None
    /\ last_data = None
    /\ consecutive_errors = 0
    /\ now = 0
    /\ slept = 0
    /\ step = "start"
    /\ exc = "none"
    /\ exit = "running"
    /\ run = [payload |-> None, writes |-> 0]
    /\ streak = 0
    /\ bronze = None
    /\ silver = << >>
    /\ refreshed = {}
    /\ source = << >>
    /\ consumed = << >>

\* Poller m is in its loop, before the horizon.
Polling(m) == pollers[m].exit = "running" /\ pollers[m].now <= MaxPollTick

\* The iteration of poller m is the next one on the wall clock; iterations of
\* the same instant come in any order.
Turn(m) ==
    /\ Polling(m)
    /\ \A q \in PollerNames : Polling(q) => pollers[m].now <= pollers[q].now

\* The locals after the pause that ends an iteration; the pollers of the
\* fleet fetch, decode and write within the tick of their wake-up.
AfterSleep(p, errors) ==
    [p EXCEPT !.consecutive_errors = errors,
              !.now = p.now + SleepDuration(poll_interval, errors)]

\* The locals after the `except Exception` block for an exception e, or after
\* e has passed the loop.
AfterException(p, e) ==
    IF LoopCatches(e)
    THEN IF IsFatal(ErrorsAfterFailure(p.consecutive_errors))
         THEN [p EXCEPT !.consecutive_errors = ErrorsAfterFailure(p.consecutive_errors),
                        !.exit = MainOutcome(e)]
         ELSE AfterSleep(p, ErrorsAfterFailure(p.consecutive_errors))
    ELSE [p EXCEPT !.exit = MainOutcome(e)]

\* What the steps of the fleet leave alone: the single job's variables.
FleetFrame ==
    UNCHANGED <<poll_interval, message_name, current_data, last_data,
                consecutive_errors, now, slept, step, exc, exit, run, streak,
                pipeline_vars, entry_vars, stream_vars>>

\* The volume has room for the file poller m would write.
FleetHasRoom(m) ==
    \/ FilePath(m, pollers[m].now) \in DOMAIN files
    \/ Cardinality(DOMAIN files) < MaxFiles

PollFetchError(m) ==
    /\ Turn(m)
    /\ pollers' = [pollers EXCEPT
                       ![m] = AfterException(pollers[m], "RequestException")]
    /\ UNCHANGED files
    /\ FleetFrame

PollSkip(m, d) ==
    /\ Turn(m)
    /\ ~ShouldSave(d, pollers[m].last_data)
    /\ pollers' = [pollers EXCEPT
                       ![m] = AfterSleep(pollers[m],
                                         ErrorsAfterIteration(
                                             pollers[m].consecutive_errors, FALSE))]
    /\ UNCHANGED files
    /\ FleetFrame

PollDecodeError(m, d) ==
    /\ Turn(m)
    /\ ShouldSave(d, pollers[m].last_data)
    /\ protobuf_to_json(d) = DecodeError
    /\ pollers' = [pollers EXCEPT
                       ![m] = AfterException(pollers[m], "DecodeError")]
    /\ UNCHANGED files
    /\ FleetFrame

PollWriteError(m, d, dumping) ==
    /\ Turn(m)
    /\ ShouldSave(d, pollers[m].last_data)
    /\ protobuf_to_json(d) # DecodeError
    /\ dumping => FleetHasRoom(m)
    /\ files' = IF dumping
                THEN WriteFile(files, FilePath(m, pollers[m].now), PartialText)
                ELSE files
    /\ pollers' = [pollers EXCEPT
                       ![m] = AfterException(pollers[m], "OSError")]
    /\ FleetFrame

PollSave(m, d) ==
    /\ Turn(m)
    /\ ShouldSave(d, pollers[m].last_data)
    /\ protobuf_to_json(d) # DecodeError
    /\ FleetHasRoom(m)
    /\ files' = WriteFile(files, FilePath(m, pollers[m].now),
                          FileText(protobuf_to_json(d)))
    /\ pollers' = [pollers EXCEPT
                       ![m] = AfterSleep(
                                  [pollers[m] EXCEPT
                                       !.last_data =
                                           StoredAfter(pollers[m].last_data, d, TRUE)],
                                  ErrorsAfterIteration(
                                      pollers[m].consecutive_errors, TRUE))]
    /\ FleetFrame

\* KeyboardInterrupt delivered to the process of poller m.
PollInterrupt(m) ==
    /\ Turn(m)
    /\ pollers' = [pollers EXCEPT
                       ![m] = AfterException(pollers[m], "KeyboardInterrupt")]
    /\ UNCHANGED files
    /\ FleetFrame

MultiNext ==
    \/ \E m \in PollerNames : PollFetchError(m)
    \/ \E m \in PollerNames, d \in Payloads :
           PollSkip(m, d)
    \/ \E m \in PollerNames, d \in Payloads :
           PollDecodeError(m, d)
    \/ \E m \in PollerNames, d \in Payloads, dumping \in BOOLEAN : PollWriteError(m, d, dumping)
    \/ \E m \in PollerNames, d \in Payloads :
           PollSave(m, d)
    \/ \E m \in PollerNames : PollInterrupt(m)

MultiSpec == MultiInit /\ [][MultiNext]_vars

\* os.path.join(f"dt={current_date}", f"{message_name}_{epoch_time}.json"):
\* the path of a file below the base path, as text.
PathText(path) ==
    "dt=" \o ToString(path.dt) \o "/" \o path.name \o "_"
        \o ToString(path.epoch) \o ".json"

RECURSIVE GlobMatch(_, _)
\* The glob of a cloudFiles load path: `*` stands for any characters of one
\* path component, every other character for itself.
GlobMatch(pattern, text) ==
    IF pattern = "" THEN text = ""
    ELSE IF SubSeq(pattern, 1, 1) = "*"
    THEN \/ GlobMatch(SubSeq(pattern, 2, Len(pattern)), text)
         \/ /\ text # ""
            /\ SubSeq(text, 1, 1) # "/"
            /\ GlobMatch(pattern, SubSeq(text, 2, Len(text)))
    ELSE /\ text # ""
         /\ SubSeq(text, 1, 1) = SubSeq(pattern, 1, 1)
         /\ GlobMatch(SubSeq(pattern, 2, Len(pattern)), SubSeq(text, 2, Len(text)))

\* Mutant: every Bronze table loads every JSON file of the volume.
BronzeGlob_AnyFeed(table) == "dt=*/*.json"

\* .load(f"{VOLUME_BASE_PATH}/dt=*/<feed>_*.json") of the three Bronze tables.
BronzeGlob(table) ==
    CASE table = "bronze_vehicle_positions" -> "dt=*/vehicle_positions_*.json"
      [] table = "bronze_trip_updates" -> "dt=*/trip_updates_*.json"
      [] table = "bronze_service_alerts" -> "dt=*/service_alerts_*.json"

\* The Bronze tables whose load path matches a file.
LoadedBy(path) ==
    {table \in BronzeTables : GlobMatch(BronzeGlob(table), PathText(path))}

\* C26: pollers of distinct message names that run interleaved on one base
\* path are independent: a step of one leaves the last stored bytes, the
\* error counter and the outcome of every other one as they were (so a fatal
\* outcome of one stops no other), the file it writes is at a path no other
\* poller writes at any instant, and that file is loaded by the Bronze table of
\* its own feed and by no other.
C26_IndependentPollers ==
    [][\A m \in PollerNames :
           pollers'[m] # pollers[m] =>
               /\ \A q \in PollerNames \ {m} : pollers'[q] = pollers[q]
               /\ \A p \in DOMAIN files' :
                      Written(p) =>
                          /\ \A q \in PollerNames \ {m},
                                t \in 0..(MaxPollTick + SLEEP_TICKS) :
                                 p # FilePath(q, t)
                          /\ LoadedBy(p) = {"bronze_" \o m}]_vars

\* One poller has ended with the fatal outcome at the first instant; after
\* that the two others have each stored a snapshot, in the same epoch second.
C26_Witness ==
    \E m, q, r \in PollerNames :
        /\ m # q /\ q # r /\ m # r
        /\ pollers[m].exit = "fatal"
        /\ pollers[m].now = 0
        /\ pollers[q].exit = "running" /\ pollers[q].now > 1
        /\ pollers[r].exit = "running" /\ pollers[r].now > 1
        /\ pollers[q].last_data # None
        /\ pollers[r].last_data # None
        /\ \E e \in 0..MaxPollTick :
               /\ [dt |-> 0, name |-> q, epoch |-> e] \in DOMAIN files
               /\ [dt |-> 0, name |-> r, epoch |-> e] \in DOMAIN files

-----------------------------------------------------------------------------
(* The Silver tables as streams: records arrive, micro-batches append rows *)

\* The number of Bronze records that arrive.
MaxRecords == 3

\* Per Bronze table a record of two entities and a record of one.
StreamRecords ==
    {[table |-> t[1], header |-> h[1], dt |-> Some("2025-01-01"),
      entity |-> Some(IF h[2] THEN <<t[2], NoVariant>> ELSE <<t[2]>>)] :
        t \in {<<"bronze_vehicle_positions", FullVehicle>>,
               <<"bronze_trip_updates", FullTripUpdate>>,
               <<"bronze_service_alerts", FullAlert>>},
        h \in {<<[timestamp |-> Some(4)], TRUE>>, <<[timestamp |-> None], FALSE>>}}

\* spark.readStream.table(...): the table a Silver table reads.
ReadsFrom(table) ==
    CASE table = "silver_vehicle_positions" -> "bronze_vehicle_positions"
      [] table = "silver_trip_updates" -> "bronze_trip_updates"
      [] table = "silver_service_alerts" -> "bronze_service_alerts"
      [] table = "silver_service_alerts_entities" -> "silver_service_alerts"

\* The Silver tables that read a Bronze table.
BronzeFed == SilverTables \ {"silver_service_alerts_entities"}

\* The rows a Silver table's query gives for one Bronze record.
RowsOf(table, rec) ==
    CASE table = "silver_vehicle_positions" -> silver_vehicle_positions(rec)
      [] table = "silver_trip_updates" -> silver_trip_updates(rec)
      [] table = "silver_service_alerts" -> silver_service_alerts(rec)
      [] table = "silver_service_alerts_entities" ->
             silver_service_alerts_entities(silver_service_alerts(rec))

StreamInit ==
    /\ source = << >>
    /\ consumed = [t \in SilverTables |-> {}]
    /\ silver = [t \in SilverTables |-> << >>]
    /\ bronze = None
    /\ refreshed = {}
    /\ argv = <<Script>>
    /\ url = main(argv).url
    /\ message_name = main(argv).message_name
    /\ poll_interval = main(argv).poll_interval * TicksPerSecond
    /\ current_data = None
    /\ last_data = None
    /\ consecutive_errors = 0
    /\ files = << >>
    /\ now = 0
    /\ slept = 0
    /\ step = "start"
    /\ exc = "none"
    /\ exit = "running"
    /\ run = [payload |-> None, writes |-> 0]
    /\ streak = 0
    /\ pollers = << >>

\* What the steps of the streams leave alone.
StreamFrame ==
    UNCHANGED <<bronze, refreshed, poll_interval, message_name, current_data,
                last_data, consecutive_errors, files, now, slept, step, exc, exit,
                run, streak, entry_vars, fleet_vars>>

\* Auto Loader picks up a new file of the volume: one more Bronze record.
Arrive(rec) ==
    /\ Len(source) < MaxRecords
    /\ source' = Append(source, rec)
    /\ UNCHANGED <<silver, consumed>>
    /\ StreamFrame

RECURSIVE Ascending(_)
\* The numbers of a finite set, in increasing order.
Ascending(S) ==
    IF S = {} THEN << >>
    ELSE LET least == CHOOSE x \in S : \A y \in S : x <= y
         IN  <<least>> \o Ascending(S \ {least})

\* Mutant: the rows of a micro-batch that the table already holds are dropped,
\* as a dropDuplicates over the stream would do.
AppendRows_Distinct(rows, batch_rows) ==
    rows \o SelectSeq(batch_rows,
                      LAMBDA r : \A k \in 1..Len(rows) : rows[k] # r)

\* A streaming table: the rows of a micro-batch are appended.
AppendRows(rows, batch_rows) == rows \o batch_rows

\* The positions of `source` a Bronze-fed Silver table has not read.
Unread(table) ==
    {i \in 1..Len(source) : source[i].table = ReadsFrom(table)} \ consumed[table]

\* One micro-batch of a Bronze-fed Silver table: some of the records it has
\* not read, whichever they are.
MicroBatch(table, batch) ==
    /\ batch # {}
    /\ batch \subseteq Unread(table)
    /\ silver' = [silver EXCEPT
                      ![table] = AppendRows(
                          @, Flatten([k \in 1..Cardinality(batch) |->
                                         RowsOf(table, source[Ascending(batch)[k]])]))]
    /\ consumed' = [consumed EXCEPT ![table] = @ \cup batch]
    /\ UNCHANGED source
    /\ StreamFrame

StreamVehiclePositions(batch) == MicroBatch("silver_vehicle_positions", batch)

StreamTripUpdates(batch) == MicroBatch("silver_trip_updates", batch)

StreamServiceAlerts(batch) == MicroBatch("silver_service_alerts", batch)

\* One micro-batch of silver_service_alerts_entities: the next n rows of
\* silver_service_alerts.
StreamServiceAlertsEntities(n) ==
    LET read == Cardinality(consumed["silver_service_alerts_entities"])
        rows == silver["silver_service_alerts"]
    IN  /\ n >= 1
        /\ read + n <= Len(rows)
        /\ silver' = [silver EXCEPT
                          !["silver_service_alerts_entities"] =
                              AppendRows(@, silver_service_alerts_entities(
                                                SubSeq(rows, read + 1, read + n)))]
        /\ consumed' = [consumed EXCEPT
                            !["silver_service_alerts_entities"] = 1..(read + n)]
        /\ UNCHANGED source
        /\ StreamFrame

StreamNext ==
    \/ \E rec \in StreamRecords : Arrive(rec)
    \/ \E batch \in SUBSET (1..MaxRecords) : StreamVehiclePositions(batch)
    \/ \E batch \in SUBSET (1..MaxRecords) : StreamTripUpdates(batch)
    \/ \E batch \in SUBSET (1..MaxRecords) : StreamServiceAlerts(batch)
    \/ \E n \in 1..(MaxRecords * MaxEntities) : StreamServiceAlertsEntities(n)

StreamSpec == StreamInit /\ [][StreamNext]_vars

\* The number of times a row occurs in a sequence of rows.
Occurrences(rows, r) == Cardinality({k \in 1..Len(rows) : rows[k] = r})

\* Two sequences of rows hold the same rows the same number of times.
SameRows(a, b) ==
    /\ Len(a) = Len(b)
    /\ \A k \in 1..Len(a) : Occurrences(a, a[k]) = Occurrences(b, a[k])

\* The rows a Silver table's query gives for each record of positions S of
\* `source` taken alone, one record after the other.
RecordByRecord(table, S) ==
    Flatten([k \in 1..Cardinality(S) |-> RowsOf(table, source[Ascending(S)[k]])])

=============================================================================
